---- MODULE Spec2Model ----
(***************************************************************************)
(* Model of scripts/run_ingest.py: the per-email ingestion loop of main(). *)
(* The external collaborators (the langgraph run store, the LanceDB table, *)
(* the embedding model, the mail source) are modelled by their state and   *)
(* by the outcome of each call; every external call of main() is one step, *)
(* so that a failure or a process kill can fall between any two of them.   *)
(***************************************************************************)
EXTENDS Integers, Sequences, FiniteSets, TLC

\* ------------------------------------------------------------------ bounds
MaxEmails == 3        \* emails the source ever yields
MaxInvocations == 2   \* invocations of main() in one behaviour
MaxThreadLen == 1     \* length of a transport thread id, in bytes

\* ------------------------------------------------------- program constants
NotFoundStatus == 404 \* the status main() treats as "thread absent"
ServerErrorStatus == 500 \* some other HTTP status

\* ------------------------------------------------------------------- data
Byte == {1}
Base == Cardinality(Byte) + 1
NoEmail == 0          \* metadata.get("email_id") of a thread with no marker
NoReport == 0 - 1     \* the "Processed N emails" line was not logged

RECURSIVE SeqsUpTo(_)
SeqsUpTo(n) ==
    IF n = 0 THEN {<<>>}
    ELSE LET S == SeqsUpTo(n - 1)
         IN S \cup {<<b>> \o s : b \in Byte, s \in {x \in S : Len(x) = n - 1}}

ThreadIds == SeqsUpTo(MaxThreadLen)

\* hashlib.md5(bytes).hexdigest(): modelled as a collision-free digest of the
\* byte string (a positional numeral); the empty string digests too.
RECURSIVE md5(_)
md5(b) == IF b = <<>> THEN 0 ELSE b[1] + Base * md5(Tail(b))

\* str(uuid.UUID(hex=md5(thread_id.encode("UTF-8")).hexdigest()))
derive(t) == md5(t)

Keys == {derive(t) : t \in ThreadIds}

EmailIds == 1..MaxEmails

\* an EmailRecord as main() reads it: id, thread_id and whether the
\* "user_respond" key is present
EmailRecords == [id : EmailIds, thread_id : ThreadIds, user_respond : BOOLEAN]

VARIABLES
    source,       \* what fetch_group_emails yields, in order
    threads,      \* run store: key -> thread record
    runs,         \* run store: the runs created, as they were requested
    index,        \* the "emails" table: appended rows, in order
    pc,           \* the external call main() is about to make, or "idle"
    pos,          \* position in source of the email being handled
    early, rerun, \* flags of the current (or last) invocation
    email_count,  \* main()'s local counter
    calls,        \* external calls of the current (or last) invocation
    start,        \* stores as they were when the invocation started
    hist          \* one record per ended invocation

vars == <<source, threads, runs, index, pc, pos, early, rerun, email_count,
          calls, start, hist>>

email == source[pos]

\* faulty variant: the digest is salted per process, as Python's built-in
\* hash() is, so a later invocation derives another key
thread_idMutSalted ==
    IF hist = <<>> THEN derive(email.thread_id)
    ELSE derive(IF email.thread_id = <<>> THEN <<1>> ELSE <<>>)

thread_id == derive(email.thread_id)

NoThread == [exists |-> FALSE, email_id |-> NoEmail, as_node |-> ""]
NewThread == [exists |-> TRUE, email_id |-> NoEmail, as_node |-> ""]

\* ---------------------------------------------------- decisions of main()
\* faulty variant: 404 creates the thread for a user reply too
LookupFailureMutCreateAlways(status, user_respond) ==
    IF status = NotFoundStatus THEN "create"
    ELSE IF user_respond THEN "continue" ELSE "raise"

\* faulty variant: any HTTP status error of the lookup creates the thread
LookupFailureMutCreateOnError(status, user_respond) ==
    IF user_respond THEN "continue" ELSE "create"

\* except httpx.HTTPStatusError, lines 84-93
LookupFailure(status, user_respond) ==
    IF user_respond THEN "continue"
    ELSE IF status = NotFoundStatus THEN "create"
    ELSE "raise"

\* faulty variants of the seen-email branch: early ignored; rerun ignored;
\* rerun tested before early
SeenPolicyMutNoBreak(e, r) ==
    IF r THEN "process" ELSE "continue"

SeenPolicyMutNoRerun(e, r) ==
    IF e THEN "break" ELSE "continue"

SeenPolicyMutRerunFirst(e, r) ==
    IF r THEN "process" ELSE IF e THEN "break" ELSE "continue"

\* faulty variant: a seen email is processed again whenever early is off
SeenPolicyMutNoSkip(e, r) ==
    IF e THEN "break" ELSE "process"

\* the seen-email branch, lines 99-109
SeenPolicy(e, r) ==
    IF e THEN "break"
    ELSE IF r THEN "process"
    ELSE "continue"

\* faulty variant: the user_respond test of line 94 is missing
AfterResolveMutIndexReply(em, thread_info, e, r) ==
    IF thread_info.email_id = em.id THEN SeenPolicy(e, r) ELSE "process"

\* lines 94-109, once thread_info is resolved
AfterResolve(em, thread_info, e, r) ==
    IF em.user_respond THEN "update_state"
    ELSE IF thread_info.email_id = em.id THEN SeenPolicy(e, r)
    ELSE "process"

\* ------------------------------------------------------ control transfers
\* a call that neither succeeded nor answered "no such thread"
Failed(c) == c.res \notin {"ok", "404"}

HistRec(outcome, reported) ==
    [early |-> early, rerun |-> rerun, outcome |-> outcome, at |-> pc,
     pos |-> pos, n |-> Len(source), rows |-> Len(index),
     reported |-> reported,
     clean |-> outcome # "error" /\ \A j \in 1..Len(calls) : ~Failed(calls[j])]

\* the invocation ends
End(outcome, reported) ==
    /\ pc' = "idle"
    /\ hist' = Append(hist, HistRec(outcome, reported))
    /\ UNCHANGED pos

\* faulty variant: the count is logged on the way out of a failure too
RaiseMutReportCount == End("error", email_count)

\* an exception leaves main(): line 150 is not reached
Raise == End("error", NoReport)

\* break, then line 150
Break == End("early_stop", email_count)

\* faulty variant: the loop does not move on to the next email
ContinueMutSamePos == pc' = "get" /\ pos' = pos /\ UNCHANGED hist

\* continue: next email
Continue == pc' = "get" /\ pos' = pos + 1 /\ UNCHANGED hist

Goto(step) == pc' = step /\ UNCHANGED <<pos, hist>>

Do(decision) ==
    CASE decision = "raise" -> Raise
      [] decision = "break" -> Break
      [] decision = "continue" -> Continue
      [] decision = "create" -> Goto("create")
      [] decision = "update_state" -> Goto("update_state")
      [] decision = "process" -> Goto("embed")

Call(op, res) == calls' = Append(calls, [op |-> op, pos |-> pos, res |-> res])

\* faulty variants of the statement order of lines 111-148: the marker is
\* committed before the row is appended; the run is started before the
\* marker is committed
SuccessorMutMarkerFirst(step) ==
    CASE step = "embed" -> "update"
      [] step = "update" -> "add"
      [] step = "add" -> "run"
      [] step = "run" -> "next"

SuccessorMutRunFirst(step) ==
    CASE step = "embed" -> "add"
      [] step = "add" -> "run"
      [] step = "run" -> "update"
      [] step = "update" -> "next"

\* the statement order of lines 111-148: embed_query, table.add,
\* threads.update, runs.create, then the next email
Successor(step) ==
    CASE step = "embed" -> "add"
      [] step = "add" -> "update"
      [] step = "update" -> "run"
      [] step = "run" -> "next"

Then(step) ==
    IF Successor(step) = "next" THEN Continue ELSE Goto(Successor(step))

\* the arguments of client.runs.create, lines 138-147
RunRequest(k, em) ==
    [thread_id |-> k, assistant_id |-> "main",
     input |-> [email |-> em, messages |-> <<>>, next |-> "human_node"],
     multitask_strategy |-> "rollback"]

\* ---------------------------------------------------------------- actions
Init ==
    /\ source = <<>>
    /\ threads = [k \in Keys |-> NoThread]
    /\ runs = {}
    /\ index = <<>>
    /\ pc = "idle"
    /\ pos = 1
    /\ early = TRUE
    /\ rerun = FALSE
    /\ email_count = 0
    /\ calls = <<>>
    /\ start = [threads |-> threads, runs |-> runs, rows |-> 0, n |-> 0]
    /\ hist = <<>>

\* between invocations a new message shows up at the head of the source
Arrive ==
    /\ pc = "idle"
    /\ Len(source) < MaxEmails
    /\ \E m \in EmailRecords :
          /\ m.id = Len(source) + 1
          /\ source' = <<m>> \o source
    /\ UNCHANGED <<threads, runs, index, pc, pos, early, rerun, email_count,
                   calls, start, hist>>

\* main(early=e, rerun=r) up to the loop head, lines 24-72
Start ==
    /\ pc = "idle"
    /\ Len(hist) < MaxInvocations
    /\ \E e \in BOOLEAN, r \in BOOLEAN : early' = e /\ rerun' = r
    /\ pc' = "get"
    /\ pos' = 1
    /\ email_count' = 0
    /\ calls' = <<>>
    /\ start' = [threads |-> threads, runs |-> runs, rows |-> Len(index),
                 n |-> Len(source)]
    /\ UNCHANGED <<source, threads, runs, index, hist>>

\* the source is exhausted: line 150
Finish ==
    /\ pc = "get"
    /\ pos > Len(source)
    /\ End("done", email_count)
    /\ UNCHANGED <<source, threads, runs, index, early, rerun, email_count,
                   calls, start>>

\* client.threads.get and what main() decides from it, lines 78-109
GetThread ==
    /\ pc = "get"
    /\ pos <= Len(source)
    /\ \/ /\ threads[thread_id].exists
          /\ Call("get", "ok")
          /\ Do(AfterResolve(email, threads[thread_id], early, rerun))
       \/ /\ ~threads[thread_id].exists
          /\ Call("get", "404")
          /\ Do(LookupFailure(NotFoundStatus, email.user_respond))
       \/ /\ Call("get", "500")
          /\ Do(LookupFailure(ServerErrorStatus, email.user_respond))
       \/ /\ Call("get", "exc")    \* not an HTTPStatusError: propagates
          /\ Raise
    /\ UNCHANGED <<source, threads, runs, index, early, rerun, email_count,
                   start>>

\* client.threads.create, line 89, then lines 94-109 on the new record
CreateThread ==
    /\ pc = "create"
    /\ \/ /\ Call("create", "ok")
          /\ threads' = [threads EXCEPT ![thread_id] = NewThread]
          /\ Do(AfterResolve(email, NewThread, early, rerun))
       \/ /\ Call("create", "fail")
          /\ Raise
          /\ UNCHANGED threads
    /\ UNCHANGED <<source, runs, index, early, rerun, email_count, start>>

\* client.threads.update_state(..., as_node="__end__"), lines 94-97
UpdateState ==
    /\ pc = "update_state"
    /\ \/ /\ Call("update_state", "ok")
          /\ threads' = [threads EXCEPT ![thread_id].as_node = "__end__"]
          /\ Continue
       \/ /\ Call("update_state", "fail")
          /\ Raise
          /\ UNCHANGED threads
    /\ UNCHANGED <<source, runs, index, early, rerun, email_count, start>>

\* embeddings.embed_query, lines 112-115 and 130-132
Embed ==
    /\ pc = "embed"
    /\ \/ Call("embed", "ok") /\ Then("embed")
       \/ Call("embed", "fail") /\ Raise
    /\ UNCHANGED <<source, threads, runs, index, early, rerun, email_count,
                   start>>

\* faulty variant: the row is appended but not counted
AddMutNoCount ==
    /\ pc = "add"
    /\ \/ /\ Call("add", "ok")
          /\ index' = Append(index, [id |-> email.id, thread_id |-> thread_id])
          /\ Then("add")
       \/ /\ Call("add", "fail")
          /\ Raise
          /\ UNCHANGED index
    /\ UNCHANGED <<source, threads, runs, early, rerun, start, email_count>>

\* table.add, lines 118-132
Add ==
    /\ pc = "add"
    /\ \/ /\ Call("add", "ok")
          /\ index' = Append(index, [id |-> email.id, thread_id |-> thread_id])
          /\ email_count' = email_count + 1
          /\ Then("add")
       \/ /\ Call("add", "fail")
          /\ Raise
          /\ UNCHANGED <<index, email_count>>
    /\ UNCHANGED <<source, threads, runs, early, rerun, start>>

\* client.threads.update(metadata={"email_id": ...}), line 134
Update ==
    /\ pc = "update"
    /\ \/ /\ Call("update", "ok")
          /\ threads' = [threads EXCEPT ![thread_id].email_id = email.id]
          /\ Then("update")
       \/ /\ Call("update", "fail")
          /\ Raise
          /\ UNCHANGED threads
    /\ UNCHANGED <<source, runs, index, early, rerun, email_count, start>>

\* client.runs.create, lines 138-148
RunsCreate ==
    /\ pc = "run"
    /\ \/ /\ Call("run", "ok")
          /\ runs' = runs \cup {RunRequest(thread_id, email)}
          /\ Then("run")
       \/ /\ Call("run", "fail")
          /\ Raise
          /\ UNCHANGED runs
    /\ UNCHANGED <<source, threads, index, early, rerun, email_count, start>>

\* the process is terminated between two external calls
Kill ==
    /\ pc # "idle"
    /\ End("killed", NoReport)
    /\ UNCHANGED <<source, threads, runs, index, early, rerun, email_count,
                   calls, start>>

Next ==
    \/ Arrive
    \/ Start
    \/ Finish
    \/ GetThread
    \/ CreateThread
    \/ UpdateState
    \/ Embed
    \/ Add
    \/ Update
    \/ RunsCreate
    \/ Kill

Spec == Init /\ [][Next]_vars

\* ------------------------------------------------- vocabulary of the claims
Last(s) == s[Len(s)]

\* rows of the index whose id column is i, among the first n rows
CountIn(i, n) == Cardinality({j \in 1..n : index[j].id = i})
Count(i) == CountIn(i, Len(index))

\* the calls made for the email at position p, in order
CallsAt(p) == SelectSeq(calls, LAMBDA c : c.pos = p)
Did(op, p) == \E j \in 1..Len(calls) :
                 calls[j].op = op /\ calls[j].pos = p /\ calls[j].res = "ok"

KeyAt(p) == derive(source[p].thread_id)

\* a run was started on thread k with the email of id i as input
Started(k, i) == \E r \in runs : r.thread_id = k /\ r.input.email.id = i

\* calls, start, pc and pos describe an invocation over the present source
Current == start.n = Len(source) /\ (pc # "idle" \/ hist # <<>>)
Ended(outcome) == pc = "idle" /\ hist # <<>> /\ Last(hist).outcome = outcome

\* the first email is not a user reply and is its thread's marker at the start
FirstSeenAtStart ==
    /\ Current
    /\ Len(source) >= 1
    /\ ~source[1].user_respond
    /\ start.threads[KeyAt(1)].email_id = source[1].id

\* this step is a call that returned res
Returned(op, res) ==
    /\ Len(calls') = Len(calls) + 1
    /\ Last(calls') = [op |-> op, pos |-> pos, res |-> res]

Completed(h) == h.outcome \in {"done", "early_stop"} /\ h.clean

\* two successive invocations i, i+1 over the same source
SameSource(i) == i + 1 <= Len(hist) /\ hist[i].n = hist[i + 1].n
SkipSeenRun(h) == h.outcome = "done" /\ h.clean /\ ~h.early /\ ~h.rerun

\* C1: with early=false and rerun=false and no failure, a second run over
\* the same sequence of emails leaves the index with as many rows as the
\* first run left it with.
C1_IdempotentRerun ==
    \A i \in 1..Len(hist) :
        (SameSource(i) /\ SkipSeenRun(hist[i]) /\ SkipSeenRun(hist[i + 1]))
            => hist[i + 1].rows = hist[i].rows

NoRerunEver == ~rerun /\ \A i \in 1..Len(hist) : ~hist[i].rerun
NoFaultEver ==
    /\ \A i \in 1..Len(hist) : Completed(hist[i])
    /\ \A j \in 1..Len(calls) : ~Failed(calls[j])

\* C2: while no invocation ran with rerun and none failed or was killed,
\* the index holds at most one row per email id.
C2_ExactlyOnce ==
    (NoRerunEver /\ NoFaultEver) => \A i \in EmailIds : Count(i) <= 1

\* C3: with early=true and the first email already its thread's marker, the
\* invocation makes no call but the thread lookup of the first email,
\* changes neither the index nor the run store, and ends there.
C3_EarlyStop ==
    (FirstSeenAtStart /\ early) =>
        /\ Len(calls) <= 1
        /\ \A j \in 1..Len(calls) : calls[j].op = "get" /\ calls[j].pos = 1
        /\ Len(index) = start.rows
        /\ threads = start.threads
        /\ runs = start.runs
        /\ email_count = 0
        /\ pos = 1
        /\ pc \in {"get", "idle"}
        /\ ~Ended("done")
        /\ (calls # <<>> /\ calls[1].res = "ok") => Ended("early_stop")

C3_Witness ==
    /\ FirstSeenAtStart
    /\ early
    /\ Len(source) = 3
    /\ calls = <<[op |-> "get", pos |-> 1, res |-> "ok"]>>
    /\ Ended("early_stop")

Steps == <<"get", "embed", "add", "update", "run">>

\* the calls for position p follow lines 83-148 for a processed email whose
\* thread exists: each succeeded, except possibly the last one made
ProcessedInOrder(p) ==
    LET cs == CallsAt(p)
    IN /\ Len(cs) <= Len(Steps)
       /\ \A j \in 1..Len(cs) :
             /\ cs[j].op = Steps[j]
             /\ j < Len(cs) => cs[j].res = "ok"

FullyProcessed(p) ==
    Did("embed", p) /\ Did("add", p) /\ Did("update", p) /\ Did("run", p)

\* C4: with rerun=true, early=false and the first email already marked
\* seen, the invocation embeds and appends it again (one more row with its
\* id, so at least two), commits the marker, starts a run for it, and goes
\* on to process the later emails.
C4_RerunReprocesses ==
    (FirstSeenAtStart /\ rerun /\ ~early) =>
        /\ ProcessedInOrder(1)
        /\ ~Ended("early_stop")
        /\ pos > 1 =>
              /\ FullyProcessed(1)
              /\ Count(source[1].id) >= CountIn(source[1].id, start.rows) + 1
              /\ Count(source[1].id) >= 2
              /\ Started(KeyAt(1), source[1].id)
        /\ \A p \in 2..Len(source) :
              (pos > p /\ ~source[p].user_respond) => FullyProcessed(p)
        /\ Ended("done") => pos > Len(source)

C4_Witness ==
    /\ FirstSeenAtStart
    /\ rerun
    /\ ~early
    /\ Len(source) = 3
    /\ Ended("done")
    /\ Count(source[1].id) = 2
    /\ \E p \in 2..3 : FullyProcessed(p)

\* the thread lookup of a non-reply email succeeds and finds the email's own
\* id as the marker
SeenCheck ==
    /\ pc = "get"
    /\ pos <= Len(source)
    /\ ~email.user_respond
    /\ threads[thread_id].exists
    /\ threads[thread_id].email_id = email.id
    /\ Returned("get", "ok")

\* C5 (as stated): with early and rerun both set, a seen email is
\* reprocessed and the scan goes on.
C5_RerunOverEarly ==
    [][(SeenCheck /\ early /\ rerun) => pc' = "embed"]_vars

\* C5 (amended): with early and rerun both set, early takes precedence: a
\* seen email stops the scan, and it is neither embedded nor appended.
C5_EarlyOverRerun ==
    [][(SeenCheck /\ early /\ rerun) =>
          /\ pc' = "idle"
          /\ Last(hist').outcome = "early_stop"
          /\ UNCHANGED <<index, threads, runs, email_count>>]_vars

C5_Witness ==
    /\ Current
    /\ early
    /\ rerun
    /\ Ended("early_stop")
    /\ ~source[pos].user_respond
    /\ threads[KeyAt(pos)].email_id = source[pos].id
    /\ Last(calls) = [op |-> "get", pos |-> pos, res |-> "ok"]

\* C6: an invocation killed after the append and before the marker commit
\* of email e is followed by an invocation over the same source that
\* processes e again: two rows with e's id, and e's id committed as marker.
C6_CrashSafety ==
    \A i \in 1..Len(hist) :
        ( /\ SameSource(i)
          /\ i + 1 = Len(hist)
          /\ Current
          /\ pc = "idle"
          /\ hist[i].outcome = "killed"
          /\ hist[i].at = "update"
          /\ Completed(hist[i + 1]) )
        => /\ Count(source[hist[i].pos].id) >= 2
           /\ Did("update", hist[i].pos)

\* C7: after a kill and a later complete invocation (early=false,
\* rerun=false) over the same source, every committed marker has a run
\* that was started with that email.
C7_Resumable ==
    \A i \in 1..Len(hist) :
        ( /\ SameSource(i)
          /\ i + 1 = Len(hist)
          /\ pc = "idle"
          /\ hist[i].outcome = "killed"
          /\ \A j \in 1..(i - 1) : Completed(hist[j])
          /\ SkipSeenRun(hist[i + 1]) )
        => \A k \in Keys :
              threads[k].email_id # NoEmail
                  => Started(k, threads[k].email_id)

Markers(t) == [k \in Keys |-> t[k].email_id]

\* C8: for a user_respond email whose thread exists, the lookup leads to
\* the update_state call and to nothing else; that call, once made, is the
\* only one besides the lookup for that email, leaves the index, the runs
\* and every marker alone, and the scan moves to the next email.
C8_UserReplyTermination ==
    [][ /\ ( /\ pc = "get"
             /\ pos <= Len(source)
             /\ email.user_respond
             /\ Returned("get", "ok") )
           => /\ pc' = "update_state"
              /\ pos' = pos
              /\ UNCHANGED <<index, threads, runs, email_count, hist>>
        /\ ( /\ pc = "update_state"
             /\ Returned("update_state", "ok") )
           => /\ email.user_respond
              /\ pc' = "get"
              /\ pos' = pos + 1
              /\ threads'[thread_id].as_node = "__end__"
              /\ Markers(threads') = Markers(threads)
              /\ UNCHANGED <<index, runs, email_count, hist>>
              /\ SelectSeq(calls', LAMBDA c : c.pos = pos)
                    = <<[op |-> "get", pos |-> pos, res |-> "ok"],
                        [op |-> "update_state", pos |-> pos, res |-> "ok"]>>
      ]_vars

C8_Witness ==
    /\ Current
    /\ pc = "get"
    /\ pos >= 2
    /\ source[pos - 1].user_respond
    /\ Last(calls) = [op |-> "update_state", pos |-> pos - 1, res |-> "ok"]
    /\ threads[KeyAt(pos - 1)].as_node = "__end__"
    /\ early
    /\ rerun

\* C9: for a user_respond email whose lookup answers 404, nothing is done:
\* no thread is created, no other call is made for it, the stores are
\* unchanged, and the scan moves to the next email.
C9_UserReplyUnknownThread ==
    [][ /\ ( /\ pc = "get"
             /\ pos <= Len(source)
             /\ email.user_respond
             /\ Returned("get", "404") )
           => /\ pc' = "get"
              /\ pos' = pos + 1
              /\ UNCHANGED <<index, threads, runs, email_count, hist>>
        /\ \A p \in 1..Len(source) :
              ( /\ start'.n = Len(source')
                /\ source[p].user_respond
                /\ \E j \in 1..Len(calls') :
                      calls'[j] = [op |-> "get", pos |-> p, res |-> "404"] )
              => Len(SelectSeq(calls', LAMBDA c : c.pos = p)) = 1
      ]_vars

C9_Witness ==
    /\ Current
    /\ pc = "get"
    /\ pos >= 2
    /\ source[pos - 1].user_respond
    /\ Last(calls) = [op |-> "get", pos |-> pos - 1, res |-> "404"]
    /\ ~threads[KeyAt(pos - 1)].exists

\* C10: a thread lookup that fails with anything but 404 ends the
\* invocation with an error: it is the last call made.
C10_FatalLookupFailure ==
    \A j \in 1..Len(calls) :
        (calls[j].op = "get" /\ calls[j].res \in {"500", "exc"})
            => /\ j = Len(calls)
               /\ Ended("error")

\* the number of calls of op made by the invocation, and of those that
\* succeeded
Made(op) == Cardinality({j \in 1..Len(calls) : calls[j].op = op})
Succeeded(op) ==
    Cardinality({j \in 1..Len(calls) :
                    calls[j].op = op /\ calls[j].res = "ok"})

\* C11: a thread's marker names an email that has a row in the index with
\* that thread's key, and no marker update is issued for an email before
\* its embed and its append have succeeded.
C11_MarkerAfterWrite ==
    /\ \A k \in Keys :
          threads[k].email_id # NoEmail =>
              \E j \in 1..Len(index) :
                  index[j].id = threads[k].email_id /\ index[j].thread_id = k
    /\ \A j \in 1..Len(calls) :
          calls[j].op = "update" =>
              \E a \in 1..j, b \in 1..j :
                  /\ a < b
                  /\ b < j
                  /\ calls[a] = [op |-> "embed", pos |-> calls[j].pos,
                                 res |-> "ok"]
                  /\ calls[b] = [op |-> "add", pos |-> calls[j].pos,
                                 res |-> "ok"]

C11_Witness ==
    /\ Len(hist) = 2
    /\ hist[1].outcome = "killed"
    /\ hist[2].outcome = "error"
    /\ \A k \in Keys : threads[k].email_id # NoEmail
    /\ Made("update") >= 1

\* C12: a call that fails is the last call of its invocation, which ends
\* with an error; nothing is done for a later position, and the rows
\* appended before it are all in the index.
C12_PrefixDurability ==
    \A j \in 1..Len(calls) :
        Failed(calls[j]) =>
            /\ j = Len(calls)
            /\ Ended("error")
            /\ \A i \in 1..Len(calls) : calls[i].pos <= calls[j].pos
            /\ Len(index) = start.rows + Succeeded("add")

\* rows in the index when invocation i started
RowsBefore(i) == IF i = 1 THEN 0 ELSE hist[i - 1].rows

\* C13 (as stated): an invocation that ends in a fatal error reports the
\* number of emails it appended before the failure.
C13_CountOnFailure ==
    \A i \in 1..Len(hist) :
        hist[i].outcome = "error" =>
            hist[i].reported = hist[i].rows - RowsBefore(i)

\* C13 (amended): the count of appended emails is reported when the loop
\* ends by exhaustion or by an early stop; an invocation that ends in a
\* fatal error reports no count.
C13_CountOnCompletionOnly ==
    \A i \in 1..Len(hist) :
        /\ hist[i].outcome = "error" => hist[i].reported = NoReport
        /\ hist[i].outcome \in {"done", "early_stop"} =>
              hist[i].reported = hist[i].rows - RowsBefore(i)

C13_Witness ==
    /\ Ended("error")
    /\ email_count >= 1
    /\ Last(hist).rows - RowsBefore(Len(hist)) = email_count
    /\ Last(hist).reported = NoReport

\* the email of the source whose id is i
EmailOf(i) == source[CHOOSE p \in 1..Len(source) : source[p].id = i]

C15_EarlyStopSound ==
    ( /\ Current
      /\ Ended("early_stop")
      /\ \A i \in 1..Len(hist) : hist[i].early )
    => \A p \in (pos + 1)..Len(source) :
          ~source[p].user_respond => Count(source[p].id) >= 1

\* C16: with early=false and rerun=false, a seen email leads to no call
\* but its lookup, leaves the index, the threads and the runs unchanged,
\* and the scan moves to the next email.
C16_SkipSeenFrame ==
    [][(SeenCheck /\ ~early /\ ~rerun) =>
          /\ pc' = "get"
          /\ pos' = pos + 1
          /\ UNCHANGED <<index, threads, runs, email_count, hist>>
          /\ SelectSeq(calls', LAMBDA c : c.pos = pos)
                = <<[op |-> "get", pos |-> pos, res |-> "ok"]>>]_vars

C16_Witness ==
    /\ Current
    /\ ~early
    /\ ~rerun
    /\ pc = "get"
    /\ pos >= 2
    /\ ~source[pos - 1].user_respond
    /\ threads[KeyAt(pos - 1)].email_id = source[pos - 1].id
    /\ CallsAt(pos - 1) = <<[op |-> "get", pos |-> pos - 1, res |-> "ok"]>>
    /\ Len(index) = start.rows

\* what may follow a call for the same email, and the calls after which the
\* loop may turn to the next email
Flow ==
    {<<"get", "404", "create">>, <<"get", "ok", "embed">>,
     <<"get", "ok", "update_state">>, <<"create", "ok", "embed">>,
     <<"embed", "ok", "add">>, <<"add", "ok", "update">>,
     <<"update", "ok", "run">>}
Closing ==
    {<<"run", "ok">>, <<"update_state", "ok">>, <<"get", "ok">>,
     <<"get", "404">>, <<"get", "500">>}

Follows(c, d) ==
    \/ d.pos = c.pos /\ <<c.op, c.res, d.op>> \in Flow
    \/ d.pos = c.pos + 1 /\ d.op = "get" /\ <<c.op, c.res>> \in Closing

\* the marker last committed for key k by the invocation, or the one it
\* found at its start
Committed(k) ==
    LET U == {j \in 1..Len(calls) :
                 /\ calls[j].op = "update"
                 /\ calls[j].res = "ok"
                 /\ KeyAt(calls[j].pos) = k}
    IN IF U = {} THEN start.threads[k].email_id
       ELSE source[calls[CHOOSE j \in U : \A i \in U : i <= j].pos].id

\* C17: the calls of an invocation start at the first email and go through
\* the emails in source order, one at a time; the calls for one email come
\* in the order get, (create), embed, add, update, run, each made after
\* the one before it returned; and the marker a thread shows is the one
\* last committed, so a later email of the thread is checked against it.
C17_SequentialOrder ==
    /\ calls # <<>> => calls[1].op = "get" /\ calls[1].pos = 1
    /\ \A j \in 1..(Len(calls) - 1) : Follows(calls[j], calls[j + 1])
    /\ Current => \A k \in Keys : threads[k].email_id = Committed(k)
    /\ (Current /\ pc # "idle") =>
          \A j \in 1..Len(calls) : calls[j].pos <= pos

C17_Witness ==
    /\ Current
    /\ Ended("done")
    /\ Len(source) = 3
    /\ Made("create") = 1
    /\ \E p \in 1..3, q \in 1..3 :
          /\ p < q
          /\ KeyAt(p) = KeyAt(q)
          /\ FullyProcessed(p)
          /\ FullyProcessed(q)
          /\ threads[KeyAt(q)].email_id = source[q].id

\* C18: an invocation that ends without a failure has appended as many
\* rows as it made marker updates and started runs, and reports that
\* number; a run is started for an email right after its marker was
\* committed, with that email, no messages and the human node as input,
\* under the rollback strategy.
C18_OnePerProcessedEmail ==
    /\ ((Ended("done") \/ Ended("early_stop")) /\ Last(hist).clean) =>
          /\ Succeeded("add") = Made("update")
          /\ Made("update") = Made("run")
          /\ Made("run") = Last(hist).reported
          /\ Len(index) = start.rows + Last(hist).reported
    /\ \A j \in 1..Len(calls) :
          calls[j].op = "run" =>
              /\ j > 1
              /\ calls[j - 1] = [op |-> "update", pos |-> calls[j].pos,
                                 res |-> "ok"]
    /\ pc = "run" => threads[thread_id].email_id = email.id
    /\ \A r \in runs :
          /\ \E p \in 1..Len(source) : r.input.email = source[p]
          /\ r.thread_id = derive(r.input.email.thread_id)
          /\ r.input.messages = <<>>
          /\ r.input.next = "human_node"
          /\ r.multitask_strategy = "rollback"
          /\ \E j \in 1..Len(index) : index[j].id = r.input.email.id

C18_Witness ==
    /\ Ended("done")
    /\ Last(hist).clean
    /\ Last(hist).reported = 2
    /\ Made("run") = 2
    /\ Made("get") = 3
    /\ Cardinality(runs) >= 2

\* the successful create calls of the invocation for key k
Creations(k) ==
    {j \in 1..Len(calls) :
        /\ calls[j].op = "create"
        /\ calls[j].res = "ok"
        /\ KeyAt(calls[j].pos) = k}

\* C19: create is called only right after a 404 lookup of an email that is
\* not a user reply, before any embed or append for it; rows and markers
\* belong to existing threads; a thread that exists is never created
\* again, in the invocation that created it or in a later one.
C19_ThreadCreation ==
    /\ \A j \in 1..Len(index) : threads[index[j].thread_id].exists
    /\ \A k \in Keys : threads[k].email_id # NoEmail => threads[k].exists
    /\ \A k \in Keys : start.threads[k].exists => threads[k].exists
    /\ Current =>
          /\ \A j \in 1..Len(calls) :
                calls[j].op = "create" =>
                    /\ j > 1
                    /\ calls[j - 1] = [op |-> "get", pos |-> calls[j].pos,
                                       res |-> "404"]
                    /\ ~source[calls[j].pos].user_respond
                    /\ ~start.threads[KeyAt(calls[j].pos)].exists
                    /\ \A i \in 1..j :
                          calls[i].pos = calls[j].pos
                              => calls[i].op \notin {"embed", "add"}
          /\ \A k \in Keys : Cardinality(Creations(k)) <= 1

C19_Witness ==
    /\ Current
    /\ Len(hist) = 2
    /\ hist[1].outcome = "error"
    /\ hist[1].rows = 0
    /\ hist[2].outcome = "done"
    /\ \E p \in 1..Len(source) :
          /\ start.threads[KeyAt(p)].exists
          /\ start.threads[KeyAt(p)].email_id = NoEmail
          /\ FullyProcessed(p)
    /\ Made("create") = 0

\* a step of main() itself
MainStep ==
    \/ Finish
    \/ GetThread
    \/ CreateThread
    \/ UpdateState
    \/ Embed
    \/ Add
    \/ Update
    \/ RunsCreate

\* how far the invocation is: the position, then the statement within the
\* loop body
Rank(step) ==
    CASE step = "get" -> 0
      [] step = "create" -> 1
      [] step = "update_state" -> 2
      [] step = "embed" -> 2
      [] step = "add" -> 3
      [] step = "update" -> 4
      [] step = "run" -> 5
Measure == pos * (Len(Steps) + 1) + Rank(pc)

\* C20: a running invocation can always take a step, every step that does
\* not end it moves it strictly forward through a finite sequence, so it
\* ends once its calls return; it looks each email up at most once; and it
\* ends by exhausting the source, by an early stop at a seen email, by an
\* error, or by the process being terminated; never "done" before the
\* source is exhausted.
C20_Termination ==
    [][ /\ pc # "idle" => ENABLED MainStep
        /\ (pc # "idle" /\ pc' # "idle") =>
              /\ Measure' > Measure
              /\ Measure' <= (Len(source) + 1) * (Len(Steps) + 1)
        /\ (pc # "idle" /\ pc' = "idle") =>
              /\ Len(hist') = Len(hist) + 1
              /\ Last(hist').outcome \in {"done", "early_stop", "error",
                                          "killed"}
              /\ Last(hist').outcome = "done" =>
                    /\ pos > Len(source)
                    /\ \A p \in 1..Len(source) :
                          \E j \in 1..Len(calls) :
                              calls[j].op = "get" /\ calls[j].pos = p
              /\ Last(hist').outcome = "early_stop" =>
                    /\ early
                    /\ pos <= Len(source)
                    /\ threads[thread_id].email_id = email.id
              /\ Last(hist').outcome = "error" => Failed(Last(calls'))
        /\ pc' # "idle" =>
              \A p \in 1..Len(source) :
                  Cardinality({j \in 1..Len(calls') :
                      calls'[j].op = "get" /\ calls'[j].pos = p}) <= 1
      ]_vars

C20_Witness ==
    /\ Current
    /\ Ended("done")
    /\ ~early
    /\ Len(source) = 3
    /\ pos = 4
    /\ Made("get") = 3
    /\ Made("run") >= 1
    /\ Made("update_state") >= 1

====
